---- MODULE Spec2Model ----
(***************************************************************************)
(* Model of beartype's sign registry (datapeprepr.py) and of the          *)
(* IsSubclass validator factory (_valeiscls.py).                           *)
(***************************************************************************)
EXTENDS Integers, Sequences, FiniteSets, TLC

VARIABLES
    pyver,                                    \* active interpreter: 36..39
    HINT_REPR_PREFIX_ARGS_0_OR_MORE_TO_SIGN,
    HINT_REPR_PREFIX_ARGS_1_OR_MORE_TO_SIGN,
    HINT_TYPE_NAME_TO_SIGN,
    HINTS_REPR_IGNORABLE_SHALLOW,
    HINTS_REPR_PREFIX_DEPRECATED,
    HINTS_PEP484_REPR_PREFIX_DEPRECATED,
    initRuns,       \* number of calls of _init() so far
    initOutcome,    \* how the last call of _init() ended
    lastLookup,     \* the last registry lookup and what it returned
    wrappers,       \* per callable: the outcome of its decoration
    invocations,    \* per callable: how often its wrapper called it
    cache,          \* memoized IsSubclass subscriptions: argument -> validator
    heap,           \* the validator objects created so far
    lastSub,        \* the last IsSubclass subscription and its outcome
    threads,        \* per thread: where it is in a subscription of IsSubclass
    messages,       \* the piths described so far and their descriptions
    sampled,        \* the last deep check of a container by a wrapper
    generated,      \* the last wrapper signature generated
    gotten,         \* the calls of get_hint_isinstanceable_type_or_none
    frames          \* per invocation of a wrapper: its parameters and locals

regVars == <<pyver, HINT_REPR_PREFIX_ARGS_0_OR_MORE_TO_SIGN,
             HINT_REPR_PREFIX_ARGS_1_OR_MORE_TO_SIGN, HINT_TYPE_NAME_TO_SIGN,
             HINTS_REPR_IGNORABLE_SHALLOW, HINTS_REPR_PREFIX_DEPRECATED,
             HINTS_PEP484_REPR_PREFIX_DEPRECATED, initRuns, initOutcome>>

decoVars == <<wrappers, invocations>>

valeVars == <<cache, heap, lastSub>>

raceVars == <<threads>>

explainVars == <<messages>>

sampleVars == <<sampled>>

synthVars == <<generated>>

moreVars == <<gotten, frames>>

restVars == <<raceVars, explainVars, sampleVars, synthVars, moreVars>>

vars == <<regVars, lastLookup, decoVars, valeVars, restVars>>

(* Bounds *)

MaxInitRuns == 2

MaxCalls == 2

MaxTupleLen == 2

MaxValidators == 2

MaxMessages == 2

MaxParams == 2

MaxGets == 2

MaxChecks == 2

\* The width of the random integer of a call; CODE_INIT_RANDOM_INT asks for
\* 32 bits.
RandomBits == 2

(* Python objects: a global is bound to an object of some type (kind). *)

PyDict(m)      == [kind |-> "dict", map |-> m]
PySet(s)       == [kind |-> "set", elems |-> s]
PyFrozenSet(s) == [kind |-> "frozenset", elems |-> s]
PyNone         == [kind |-> "None", elems |-> {}]

EmptyMap == [k \in {} |-> ""]

\* dict[key] = value
DictSet(d, k, v) == [d EXCEPT !.map = (k :> v) @@ d.map]

\* dict.update(pairs), pairs a sequence of <<key, value>> in insertion
\* order: of several pairs with one key, the last one stays.
DictUpdate(d, pairs) ==
    LET ps == pairs \o <<>>
        keys == {ps[i][1] : i \in DOMAIN ps}
        last(k) == CHOOSE i \in DOMAIN ps :
                      /\ ps[i][1] = k
                      /\ \A j \in i+1..Len(ps) : ps[j][1] # k
    IN  [d EXCEPT !.map =
            [k \in keys \cup DOMAIN d.map |->
                IF k \in keys THEN ps[last(k)][2] ELSE d.map[k]]]

NotFound == "NotFound"

\* dict.get(key)
DictGet(d, k) == IF k \in DOMAIN d.map THEN d.map[k] ELSE NotFound

(* Interpreter version flags *)

PyVersions == {36, 37, 38, 39}

IS_PYTHON_3_6(v)          == v = 36
IS_PYTHON_AT_LEAST_3_7(v) == v >= 37
IS_PYTHON_AT_MOST_3_8(v)  == v <= 38
IS_PYTHON_AT_LEAST_3_9(v) == v >= 39

TYPING_MODULE_NAMES == {"typing", "typing_extensions"}


(* Names that dir(datapepsigns) returns, in dir()'s sorted order: every    *)
(* sign of the module, then a name that is no sign.                        *)
HintSignNames == <<
    "HintSignAbstractSet", "HintSignAnnotated", "HintSignAny",
    "HintSignAsyncContextManager", "HintSignAsyncGenerator",
    "HintSignAsyncIterable", "HintSignAsyncIterator", "HintSignAwaitable",
    "HintSignByteString", "HintSignCallable", "HintSignChainMap",
    "HintSignClassVar", "HintSignCollection", "HintSignConcatenate",
    "HintSignContainer", "HintSignContextManager", "HintSignCoroutine",
    "HintSignCounter", "HintSignDefaultDict", "HintSignDeque",
    "HintSignDict", "HintSignFinal", "HintSignForwardRef",
    "HintSignFrozenSet", "HintSignGenerator", "HintSignGeneric",
    "HintSignHashable", "HintSignItemsView", "HintSignIterable",
    "HintSignIterator", "HintSignKeysView", "HintSignList",
    "HintSignLiteral", "HintSignMapping", "HintSignMappingView",
    "HintSignMatch", "HintSignMutableMapping", "HintSignMutableSequence",
    "HintSignMutableSet", "HintSignNamedTuple", "HintSignNewType",
    "HintSignNone", "HintSignNumpyArray", "HintSignOptional",
    "HintSignOrderedDict", "HintSignParamSpec", "HintSignParamSpecArgs",
    "HintSignPattern", "HintSignProtocol", "HintSignReversible",
    "HintSignSequence", "HintSignSet", "HintSignSized", "HintSignTuple",
    "HintSignType", "HintSignTypeVar", "HintSignTypedDict",
    "HintSignUnion", "HintSignValuesView" >>

DirDatapepsigns == HintSignNames \o << "__name__" >>

(* Module-level literals *)

HINT_REPR_PREFIX_ARGS_0_OR_MORE_TO_SIGN_literal ==
    PyDict("None" :> "HintSignNone")

Args1OrMorePairs == <<
    <<"tuple", "HintSignTuple">>,
    <<"list", "HintSignList">>,
    <<"dict", "HintSignDict">>,
    <<"set", "HintSignSet">>,
    <<"frozenset", "HintSignFrozenSet">>,
    <<"type", "HintSignType">>,
    <<"collections.deque", "HintSignDeque">>,
    <<"collections.defaultdict", "HintSignDefaultDict">>,
    <<"collections.OrderedDict", "HintSignOrderedDict">>,
    <<"collections.Counter", "HintSignCounter">>,
    <<"collections.ChainMap", "HintSignChainMap">>,
    <<"collections.abc.Awaitable", "HintSignAwaitable">>,
    <<"collections.abc.Coroutine", "HintSignCoroutine">>,
    <<"collections.abc.AsyncIterable", "HintSignAsyncIterable">>,
    <<"collections.abc.AsyncIterator", "HintSignAsyncIterator">>,
    <<"collections.abc.AsyncGenerator", "HintSignAsyncGenerator">>,
    <<"collections.abc.Iterable", "HintSignIterable">>,
    <<"collections.abc.Iterator", "HintSignIterator">>,
    <<"collections.abc.Generator", "HintSignGenerator">>,
    <<"collections.abc.Reversible", "HintSignReversible">>,
    <<"collections.abc.Container", "HintSignContainer">>,
    <<"collections.abc.Collection", "HintSignCollection">>,
    <<"collections.abc.Callable", "HintSignCallable">>,
    <<"collections.abc.Set", "HintSignAbstractSet">>,
    <<"collections.abc.MutableSet", "HintSignMutableSet">>,
    <<"collections.abc.Mapping", "HintSignMapping">>,
    <<"collections.abc.MutableMapping", "HintSignMutableMapping">>,
    <<"collections.abc.Sequence", "HintSignSequence">>,
    <<"collections.abc.MutableSequence", "HintSignMutableSequence">>,
    <<"collections.abc.ByteString", "HintSignByteString">>,
    <<"collections.abc.MappingView", "HintSignMappingView">>,
    <<"collections.abc.KeysView", "HintSignKeysView">>,
    <<"collections.abc.ItemsView", "HintSignItemsView">>,
    <<"collections.abc.ValuesView", "HintSignValuesView">>,
    <<"contextlib.AbstractContextManager", "HintSignContextManager">>,
    <<"contextlib.AbstractAsyncContextManager", "HintSignAsyncContextManager">>,
    <<"re.Pattern", "HintSignPattern">>,
    <<"re.Match", "HintSignMatch">>,
    <<"numpy.ndarray", "HintSignNumpyArray">> >>

HINT_REPR_PREFIX_ARGS_1_OR_MORE_TO_SIGN_literal ==
    DictUpdate(PyDict(EmptyMap), Args1OrMorePairs)

HINT_TYPE_NAME_TO_SIGN_literal ==
    PyDict("builtins.str" :> "HintSignForwardRef")

HINTS_REPR_PREFIX_DEPRECATED_literal == PyNone

HINTS_PEP484_REPR_PREFIX_DEPRECATED_literal == PySet({})

HINTS_REPR_IGNORABLE_SHALLOW_literal ==
    PySet({ "<class 'object'>",
            "<class 'typing.Generic'>",
            "<class 'typing_extensions.Generic'>",
            "<class 'typing.Protocol'>",
            "<class 'typing_extensions.Protocol'>" })

(* _init(): the local tables it builds *)

_HINT_SIGN_PREFIX_LEN == Len("HintSign")

\* str.startswith(prefix)
StartsWith(str, prefix) ==
    /\ Len(str) >= Len(prefix)
    /\ SubSeq(str, 1, Len(prefix)) = prefix

\* str[n:]
StrFrom(str, n) == SubSeq(str, n + 1, Len(str))

\* Mutant: both corrections name the same representation.
Mutant_ReprPrefixCollide(v) ==
    IF IS_PYTHON_AT_LEAST_3_7(v) /\ IS_PYTHON_AT_MOST_3_8(v)
    THEN DictUpdate(PyDict(EmptyMap), <<
            <<"AsyncContextManager", "AbstractAsyncContextManager">>,
            <<"ContextManager", "AbstractAsyncContextManager">> >>)
    ELSE PyDict(EmptyMap)

_HINT_TYPING_ATTR_NAME_TO_REPR_PREFIX(v) ==
    IF IS_PYTHON_AT_LEAST_3_7(v) /\ IS_PYTHON_AT_MOST_3_8(v)
    THEN DictUpdate(PyDict(EmptyMap), <<
            <<"AsyncContextManager", "AbstractAsyncContextManager">>,
            <<"ContextManager", "AbstractContextManager">> >>)
    ELSE PyDict(EmptyMap)

\* Mutant: the class of forward references is named as under Python >= 3.7
\* whatever the interpreter.
Mutant_TypeBasenamesUnversioned(v) == <<
    <<"ForwardRef", "HintSignForwardRef">>,
    <<"TypeVar", "HintSignTypeVar">> >>

_HINT_TYPE_BASENAMES_TO_SIGN(v) == <<
    <<IF IS_PYTHON_AT_LEAST_3_7(v) THEN "ForwardRef" ELSE "_ForwardRef",
      "HintSignForwardRef">>,
    <<"TypeVar", "HintSignTypeVar">> >>

\* Mutant: one deprecated name is declared on every interpreter.
Mutant_DeprecatedNamesUnversioned(v) == {"List"}

_HINT_PEP484_TYPING_ATTR_NAMES_DEPRECATED(v) ==
    IF IS_PYTHON_AT_LEAST_3_9(v)
    THEN {
    "AbstractSet", "AsyncContextManager", "AsyncGenerator",
    "AsyncIterable", "AsyncIterator", "Awaitable", "ByteString",
    "Callable", "ChainMap", "Collection", "Container", "ContextManager",
    "Coroutine", "Counter", "DefaultDict", "Deque", "Dict", "FrozenSet",
    "Generator", "Hashable", "ItemsView", "Iterable", "Iterator",
    "KeysView", "List", "MappingView", "Mapping", "Match",
    "MutableMapping", "MutableSequence", "MutableSet", "OrderedDict",
    "Pattern", "Reversible", "Sequence", "Set", "Sized", "Tuple", "Type",
    "ValuesView" }
    ELSE {}

\* Mutant: the unsubscripted Union is not among the ignorable names.
Mutant_IgnorableNamesNoUnion(v) ==
    {"Any", "Optional"} \cup (IF IS_PYTHON_3_6(v) THEN {"Generic"} ELSE {})

_HINT_TYPING_ATTR_NAMES_IGNORABLE(v) ==
    {"Any", "Optional", "Union"}
        \cup (IF IS_PYTHON_3_6(v) THEN {"Generic"} ELSE {})

\* Mutant: the unqualified Match and Pattern are registered on every
\* interpreter.
Mutant_Python36PairsUnversioned(v) ==
    << <<"Match", "HintSignMatch">>, <<"Pattern", "HintSignPattern">> >>

\* The Python 3.6 update of the zero-or-more table.
Python36Pairs(v) ==
    IF IS_PYTHON_3_6(v)
    THEN << <<"Match", "HintSignMatch">>, <<"Pattern", "HintSignPattern">> >>
    ELSE <<>>

(* _init(): CONSTRUCTION *)

\* The writes of the loop over dir(datapepsigns) for one hinting module, in
\* order: names not prefixed by "HintSign" are skipped.
IsSignName(hint_sign_name) == StartsWith(hint_sign_name, "HintSign")

SignPairs(names, typing_module_name, v) ==
    LET sign_names == SelectSeq(names, IsSignName)
        corr == _HINT_TYPING_ATTR_NAME_TO_REPR_PREFIX(v)
        typing_attr_name(hint_sign_name) ==
            StrFrom(hint_sign_name, _HINT_SIGN_PREFIX_LEN)
        hint_repr_prefix(hint_sign_name) ==
            IF typing_attr_name(hint_sign_name) \in DOMAIN corr.map
            THEN corr.map[typing_attr_name(hint_sign_name)]
            ELSE typing_attr_name(hint_sign_name)
    IN  [i \in 1..Len(sign_names) |->
            <<typing_module_name \o "." \o hint_repr_prefix(sign_names[i]),
              sign_names[i]>>]

\* The writes of the loop over _HINT_TYPE_BASENAMES_TO_SIGN for one module.
TypePairs(typing_module_name, v) ==
    [i \in 1..Len(_HINT_TYPE_BASENAMES_TO_SIGN(v)) |->
        <<typing_module_name \o "." \o _HINT_TYPE_BASENAMES_TO_SIGN(v)[i][1],
          _HINT_TYPE_BASENAMES_TO_SIGN(v)[i][2]>>]

Qualified(typing_module_name, names) ==
    {typing_module_name \o "." \o n : n \in names}

\* One iteration of the loop over TYPING_MODULE_NAMES. st holds the objects
\* the globals are bound to; st.raised names the exception that ended the
\* call, if any. Only set objects have add().
RegisterModule(st, typing_module_name, v) ==
    LET t0n == DictUpdate(st.t0, SignPairs(DirDatapepsigns, typing_module_name, v))
        tnn == DictUpdate(st.tn, TypePairs(typing_module_name, v))
        ignNames == _HINT_TYPING_ATTR_NAMES_IGNORABLE(v)
        depNames == _HINT_PEP484_TYPING_ATTR_NAMES_DEPRECATED(v)
        ignn == [st.ign EXCEPT
                   !.elems = @ \cup Qualified(typing_module_name, ignNames)]
        depn == [st.dep EXCEPT
                   !.elems = @ \cup Qualified(typing_module_name, depNames)]
    IN  IF ignNames # {} /\ st.ign.kind # "set"
        THEN [st EXCEPT !.t0 = t0n, !.tn = tnn, !.raised = "AttributeError"]
        ELSE IF depNames # {} /\ st.dep.kind # "set"
        THEN [st EXCEPT !.t0 = t0n, !.tn = tnn, !.ign = ignn,
                        !.raised = "AttributeError"]
        ELSE [st EXCEPT !.t0 = t0n, !.tn = tnn, !.ign = ignn, !.dep = depn]

RECURSIVE RegisterModules(_, _, _)
RegisterModules(st, modules, v) ==
    IF modules = <<>> \/ st.raised # "none" THEN st
    ELSE RegisterModules(RegisterModule(st, Head(modules), v), Tail(modules), v)

\* The orders in which the loop may visit TYPING_MODULE_NAMES.
ModuleOrders ==
    {o \in [1..Cardinality(TYPING_MODULE_NAMES) -> TYPING_MODULE_NAMES] :
        \A i, j \in DOMAIN o : i # j => o[i] # o[j]}

\* The body of _init() up to the end of CONSTRUCTION.
Construction(v, order, t0obj, tnobj, ignobj, depobj) ==
    RegisterModules(
        [t0 |-> DictUpdate(t0obj, Python36Pairs(v)), tn |-> tnobj,
         ign |-> ignobj, dep |-> depobj, raised |-> "none"],
        order, v)

\* Mutant: the set is left as it is, not frozen.
Mutant_NoFreeze(setobj) == PySet(setobj.elems)

\* SYNTHESIS: frozenset(x) of the set x.
Freeze(setobj) == PyFrozenSet(setobj.elems)

_init ==
    /\ initRuns < MaxInitRuns
    /\ \E order \in ModuleOrders :
        \E st \in {Construction(pyver, order,
                      HINT_REPR_PREFIX_ARGS_0_OR_MORE_TO_SIGN,
                      HINT_TYPE_NAME_TO_SIGN,
                      HINTS_REPR_IGNORABLE_SHALLOW,
                      HINTS_PEP484_REPR_PREFIX_DEPRECATED)} :
            /\ HINT_REPR_PREFIX_ARGS_0_OR_MORE_TO_SIGN' = st.t0
            /\ HINT_TYPE_NAME_TO_SIGN' = st.tn
            /\ IF st.raised = "none"
               THEN /\ HINTS_PEP484_REPR_PREFIX_DEPRECATED' = Freeze(st.dep)
                    /\ HINTS_REPR_PREFIX_DEPRECATED' = Freeze(st.dep)
                    /\ HINTS_REPR_IGNORABLE_SHALLOW' = Freeze(st.ign)
                    /\ initOutcome' = "ok"
               ELSE /\ HINTS_PEP484_REPR_PREFIX_DEPRECATED' = st.dep
                    /\ HINTS_REPR_IGNORABLE_SHALLOW' = st.ign
                    /\ initOutcome' = st.raised
                    /\ UNCHANGED HINTS_REPR_PREFIX_DEPRECATED
    /\ initRuns' = initRuns + 1
    /\ UNCHANGED <<pyver, HINT_REPR_PREFIX_ARGS_1_OR_MORE_TO_SIGN, lastLookup,
                   decoVars, valeVars, restVars>>

(* Registry lookups *)

classify_repr(repr_prefix) ==
    IF DictGet(HINT_REPR_PREFIX_ARGS_0_OR_MORE_TO_SIGN, repr_prefix) # NotFound
    THEN DictGet(HINT_REPR_PREFIX_ARGS_0_OR_MORE_TO_SIGN, repr_prefix)
    ELSE DictGet(HINT_REPR_PREFIX_ARGS_1_OR_MORE_TO_SIGN, repr_prefix)

classify_classname(fqcn) == DictGet(HINT_TYPE_NAME_TO_SIGN, fqcn)

is_ignorable_shallow(repr) == repr \in HINTS_REPR_IGNORABLE_SHALLOW.elems

is_deprecated(repr) == repr \in HINTS_REPR_PREFIX_DEPRECATED.elems

\* Every representation prefix any interpreter version registers, and some
\* that none does.
ReprUniverse ==
    UNION {DOMAIN Construction(v, o,
                HINT_REPR_PREFIX_ARGS_0_OR_MORE_TO_SIGN_literal,
                HINT_TYPE_NAME_TO_SIGN_literal,
                HINTS_REPR_IGNORABLE_SHALLOW_literal,
                HINTS_PEP484_REPR_PREFIX_DEPRECATED_literal).t0.map
           : v \in PyVersions, o \in ModuleOrders}
    \cup DOMAIN HINT_REPR_PREFIX_ARGS_1_OR_MORE_TO_SIGN_literal.map
    \cup {"muh.Unregistered", "<class 'list'>", "'MuhClass'"}

\* Every classname any interpreter version registers, and some that none does.
ClassnameUniverse ==
    UNION {DOMAIN Construction(v, o,
                HINT_REPR_PREFIX_ARGS_0_OR_MORE_TO_SIGN_literal,
                HINT_TYPE_NAME_TO_SIGN_literal,
                HINTS_REPR_IGNORABLE_SHALLOW_literal,
                HINTS_PEP484_REPR_PREFIX_DEPRECATED_literal).tn.map
           : v \in PyVersions, o \in ModuleOrders}
    \cup {"builtins.type", "builtins.int", "typing.List", "list"}

\* The representation prefixes looked up: registered in every version, in
\* some versions only, in one table or another, and in none.
LookupReprs ==
    {"None", "typing.List", "typing_extensions.List", "typing.Union",
     "typing.ContextManager", "typing.AbstractContextManager",
     "typing.AsyncContextManager", "typing.AbstractAsyncContextManager",
     "typing_extensions.AbstractContextManager",
     "Match", "Pattern", "typing.Match", "typing.Pattern",
     "typing.ForwardRef", "typing.TypeVar", "typing.NumpyArray",
     "list", "tuple", "type", "collections.abc.Set", "re.Match",
     "contextlib.AbstractContextManager", "numpy.ndarray",
     "muh.Unregistered", "<class 'list'>", "'MuhClass'", "builtins.str"}

\* The classnames looked up.
LookupClassnames ==
    {"builtins.str", "typing.ForwardRef", "typing._ForwardRef",
     "typing_extensions.ForwardRef", "typing_extensions._ForwardRef",
     "typing.TypeVar", "typing_extensions.TypeVar",
     "builtins.type", "builtins.int", "typing.List", "list",
     "muh.UnregisteredType"}

LookupRepr ==
    /\ initRuns >= 1
    /\ \E r \in LookupReprs :
        lastLookup' = [fn |-> "classify_repr", key |-> r,
                       result |-> classify_repr(r)]
    /\ UNCHANGED <<regVars, decoVars, valeVars, restVars>>

LookupClassname ==
    /\ initRuns >= 1
    /\ \E n \in LookupClassnames :
        lastLookup' = [fn |-> "classify_classname", key |-> n,
                       result |-> classify_classname(n)]
    /\ UNCHANGED <<regVars, decoVars, valeVars, restVars>>

(* Ignorability of a hint *)

\* A hint as the test of ignorability sees it: its representation, whether
\* it is a union, whether it is a container or generic, and its arguments.
IgnHint(repr, is_union, is_container, args) ==
    [repr |-> repr, is_union |-> is_union, is_container |-> is_container,
     args |-> args]

\* An argument of a subscription: how the subscripted hint's representation
\* shows it, and its own representation.
Arg(shown, repr) == [shown |-> shown, repr |-> repr]

UnionReprs == {m \o ".Union" : m \in TYPING_MODULE_NAMES}

\* The unsubscripted hints tested: the shallowly ignorable ones, under the
\* representations the interpreters give them, and others.
UnsubscriptedReprs ==
    {"<class 'object'>", "<class 'typing.Generic'>", "typing.Generic",
     "<class 'typing_extensions.Generic'>", "<class 'typing.Protocol'>",
     "<class 'typing_extensions.Protocol'>",
     "typing.Any", "typing.Optional", "typing.Union",
     "typing_extensions.Any", "typing_extensions.Optional",
     "typing_extensions.Union", "typing.List", "<class 'int'>"}

Unsubscripted(repr) ==
    IgnHint(repr, repr \in UnionReprs, repr = "typing.List", <<>>)

\* The arguments hints are subscripted by: equivalent to Any, and others.
AnyEquivalentArgs ==
    { <<Arg("typing.Any", "typing.Any")>>,
      <<Arg("object", "<class 'object'>")>> }

SubscriptionArgLists ==
    AnyEquivalentArgs
    \cup { <<Arg("int", "<class 'int'>"), Arg("str", "<class 'str'>")>>,
           <<Arg("typing.Any", "typing.Any"), Arg("int", "<class 'int'>")>>,
           <<Arg("typing.Any", "typing.Any"),
             Arg("object", "<class 'object'>")>> }

\* base[args] for a union: typing reduces a union of one argument to that
\* argument; a union of two is a new hint.
Subscript(base, args) ==
    IF Len(args) = 1 THEN Unsubscripted(args[1].repr)
    ELSE IgnHint(base.repr \o "[" \o args[1].shown \o ", " \o args[2].shown
                     \o "]", TRUE, FALSE, args)

\* Mutant: only the shallow test is made.
Mutant_is_hint_ignorableShallowOnly(h) == is_ignorable_shallow(h.repr)

\* A hint is ignorable if its representation is shallowly ignorable, or it
\* is a union subscripted by one or more shallowly ignorable hints (deeply
\* ignorable, as Union[Any, bool, str]), or it is an unsubscripted
\* container.
is_hint_ignorable(h) ==
    \/ is_ignorable_shallow(h.repr)
    \/ /\ h.is_union
       /\ \E i \in DOMAIN h.args : is_ignorable_shallow(h.args[i].repr)
    \/ h.is_container /\ h.args = <<>>

\* The ignorability of an unsubscripted hint is tested.
TestIgnorable ==
    /\ initRuns >= 1
    /\ \E repr \in UnsubscriptedReprs :
        lastLookup' = [fn |-> "is_hint_ignorable", key |-> repr,
                       result |-> is_hint_ignorable(Unsubscripted(repr)),
                       hint |-> Unsubscripted(repr), subscripted |-> FALSE,
                       by |-> <<>>]
    /\ UNCHANGED <<regVars, decoVars, valeVars, restVars>>

\* A union is subscripted and the ignorability of the result is tested.
TestIgnorableSubscripted ==
    /\ initRuns >= 1
    /\ \E repr \in UnionReprs, args \in SubscriptionArgLists :
        \E h \in {Subscript(Unsubscripted(repr), args)} :
            lastLookup' = [fn |-> "is_hint_ignorable", key |-> h.repr,
                           result |-> is_hint_ignorable(h),
                           hint |-> h, subscripted |-> TRUE, by |-> args]
    /\ UNCHANGED <<regVars, decoVars, valeVars, restVars>>

(* Decoration: classification of a callable's hint *)

Callables == {"f", "g"}

\* A hint, as classification sees it: its bare representation prefix,
\* whether it is subscripted, the fully-qualified name of its class, and
\* whether it is a plain isinstanceable type.
Hint(repr, subscripted, typename, is_type) ==
    [repr |-> repr, subscripted |-> subscripted, typename |-> typename,
     is_type |-> is_type]

Hints == {
    Hint("typing.List", FALSE, "typing._GenericAlias", FALSE),
    Hint("typing.List", TRUE, "typing._GenericAlias", FALSE),
    Hint("typing.AbstractContextManager", TRUE, "typing._GenericAlias", FALSE),
    Hint("list", TRUE, "types.GenericAlias", FALSE),
    Hint("numpy.ndarray", TRUE, "types.GenericAlias", FALSE),
    Hint("None", FALSE, "builtins.NoneType", FALSE),
    Hint("<class 'list'>", FALSE, "builtins.type", TRUE),
    Hint("<class 'muh.MuhClass'>", FALSE, "builtins.type", TRUE),
    Hint("'MuhClass'", FALSE, "builtins.str", FALSE),
    Hint("'0d@yw@r3z'", FALSE, "builtins.str", FALSE),
    Hint("'typing.List'", FALSE, "builtins.str", FALSE),
    Hint("ForwardRef('MuhClass')", FALSE, "typing.ForwardRef", FALSE),
    Hint("_ForwardRef('MuhClass')", FALSE, "typing._ForwardRef", FALSE),
    Hint("~T", FALSE, "typing.TypeVar", FALSE),
    Hint("muh.Unregistered", TRUE, "muh.UnregisteredType", FALSE),
    Hint("42", FALSE, "builtins.int", FALSE) }

\* The implicit sign of a plain isinstanceable type.
SignIsinstance == "isinstance"

Classified(h, sign) == [ok |-> TRUE, sign |-> sign, hint |-> h,
                        error |-> "", repr |-> h.repr]

Unrecognized(h) == [ok |-> FALSE, sign |-> NotFound, hint |-> h,
                    error |-> "unrecognized hint", repr |-> h.repr]

\* Mutant: the classname lookup is left out.
Mutant_classifyNoClassname(h) ==
    IF classify_repr(h.repr) # NotFound
    THEN Classified(h, classify_repr(h.repr))
    ELSE IF h.is_type THEN Classified(h, SignIsinstance)
    ELSE Unrecognized(h)

classify(h) ==
    IF DictGet(HINT_REPR_PREFIX_ARGS_0_OR_MORE_TO_SIGN, h.repr) # NotFound
    THEN Classified(h, DictGet(HINT_REPR_PREFIX_ARGS_0_OR_MORE_TO_SIGN, h.repr))
    ELSE IF DictGet(HINT_REPR_PREFIX_ARGS_1_OR_MORE_TO_SIGN, h.repr) # NotFound
    THEN Classified(h, DictGet(HINT_REPR_PREFIX_ARGS_1_OR_MORE_TO_SIGN, h.repr))
    ELSE IF classify_classname(h.typename) # NotFound
    THEN Classified(h, classify_classname(h.typename))
    ELSE IF h.is_type THEN Classified(h, SignIsinstance)
    ELSE Unrecognized(h)

NotDecorated == [status |-> "none"]

\* Decoration of callable f annotated by hint h: the hint is classified; an
\* unrecognized hint raises and no wrapper is made.
Decorate ==
    /\ initRuns >= 1
    /\ \E f \in Callables, h \in Hints :
        /\ wrappers[f] = NotDecorated
        /\ wrappers' = [wrappers EXCEPT ![f] =
              IF classify(h).ok
              THEN [status |-> "wrapped", result |-> classify(h)]
              ELSE [status |-> "raised", result |-> classify(h)]]
    /\ UNCHANGED <<regVars, lastLookup, invocations, valeVars, restVars>>

\* A call of the wrapper of f, which calls f.
Call ==
    /\ \E f \in Callables :
        /\ wrappers[f].status = "wrapped"
        /\ invocations[f] < MaxCalls
        /\ invocations' = [invocations EXCEPT ![f] = @ + 1]
    /\ UNCHANGED <<regVars, lastLookup, wrappers, valeVars, restVars>>

(* Decoration, stage by stage: Classify, Synthesize, Compile *)

Pipeline == <<"Classify", "Synthesize", "Compile">>

\* The hints the staged decorations are given: a registered hint, a plain
\* type, a forward reference and an unregistered hint.
PipelineHints == {h \in Hints :
    h.repr \in {"typing.List", "<class 'list'>", "'MuhClass'",
                "muh.Unregistered"}}

Decorating(f) == wrappers[f] # NotDecorated /\ wrappers[f].status = "decorating"

\* The stages the decoration of f has entered.
StagesOf(w) == IF w = NotDecorated THEN <<>> ELSE w.trace

Failed(h, error) == [ok |-> FALSE, sign |-> NotFound, hint |-> h,
                     error |-> error, repr |-> h.repr]

\* Stage 1 of the decoration of f: its hint is classified. Decoration is
\* synchronous: none starts while another is under way.
DecorateClassify ==
    /\ initRuns >= 1
    /\ \A g \in Callables : ~Decorating(g)
    /\ \E f \in Callables, h \in PipelineHints :
        /\ wrappers[f] = NotDecorated
        /\ wrappers' = [wrappers EXCEPT ![f] =
              [status |-> IF classify(h).ok THEN "decorating" ELSE "raised",
               result |-> classify(h), trace |-> <<"Classify">>]]
    /\ UNCHANGED <<regVars, lastLookup, invocations, valeVars, restVars>>

\* Mutant: a failed synthesis leaves the wrapper made so far in place.
Mutant_DecorateSynthesizeKeepsPartial ==
    /\ \E f \in Callables, supported \in BOOLEAN :
        /\ Decorating(f)
        /\ wrappers[f].trace = <<"Classify">>
        /\ wrappers' = [wrappers EXCEPT ![f] =
              [status |-> IF supported THEN "decorating" ELSE "wrapped",
               result |-> IF supported THEN wrappers[f].result
                          ELSE Failed(wrappers[f].result.hint,
                                      "unsupported combination"),
               trace |-> Append(wrappers[f].trace, "Synthesize")]]
    /\ UNCHANGED <<regVars, lastLookup, invocations, valeVars, restVars>>

\* Stage 2: the classified hint is lowered to code, unless synthesis does
\* not support this combination of sign and arguments.
DecorateSynthesize ==
    /\ \E f \in Callables, supported \in BOOLEAN :
        /\ Decorating(f)
        /\ wrappers[f].trace = <<"Classify">>
        /\ wrappers' = [wrappers EXCEPT ![f] =
              [status |-> IF supported THEN "decorating" ELSE "raised",
               result |-> IF supported THEN wrappers[f].result
                          ELSE Failed(wrappers[f].result.hint,
                                      "unsupported combination"),
               trace |-> Append(wrappers[f].trace, "Synthesize")]]
    /\ UNCHANGED <<regVars, lastLookup, invocations, valeVars, restVars>>

\* Stage 3: the wrapper's source is compiled; only then is there a wrapper.
DecorateCompile ==
    /\ \E f \in Callables, compiled \in BOOLEAN :
        /\ Decorating(f)
        /\ wrappers[f].trace = <<"Classify", "Synthesize">>
        /\ wrappers' = [wrappers EXCEPT ![f] =
              [status |-> IF compiled THEN "wrapped" ELSE "raised",
               result |-> IF compiled THEN wrappers[f].result
                          ELSE Failed(wrappers[f].result.hint,
                                      "compilation failed"),
               trace |-> Append(wrappers[f].trace, "Compile")]]
    /\ UNCHANGED <<regVars, lastLookup, invocations, valeVars, restVars>>

(* IsSubclass: the objects it is subscripted by and tested against *)

\* Classes and their direct base classes.
ClassBases ==
    [BaseA |-> {}, BaseB |-> {}, SubA |-> {"BaseA"},
     SubAB |-> {"BaseA", "BaseB"}, SubSubA |-> {"SubA"}, Other |-> {}]

Classes == DOMAIN ClassBases

\* Objects that are no classes.
NonClasses == {"NotAType"}

\* The objects IsSubclass is subscripted by, alone or in a tuple.
ArgObjects == {"BaseA", "BaseB", "NotAType"}

\* The objects validators are applied to.
Piths == Classes \cup NonClasses

RECURSIVE Ancestors(_)
Ancestors(c) == {c} \cup UNION {Ancestors(b) : b \in ClassBases[c]}

\* issubclass(c, d) for classes c and d
issubclass(c, d) == d \in Ancestors(c)

\* A subscription argument: one object, or a tuple of objects.
Bare(o) == [tuple |-> FALSE, items |-> <<o>>]

Tuple(items) == [tuple |-> TRUE, items |-> items]

SubscriptionArgs ==
    {Bare(o) : o \in ArgObjects}
    \cup {Tuple(t) : t \in UNION {[1..n -> ArgObjects] : n \in 0..MaxTupleLen}}

\* die_unless_type_issubclassable(cls) raises unless this holds.
is_type_issubclassable(cls) == cls \in Classes

\* is_type_subclass(obj, base_classes), base_classes one class or a tuple
is_type_subclass(obj, base_classes) ==
    /\ obj \in Classes
    /\ \E i \in DOMAIN base_classes.items :
          issubclass(obj, base_classes.items[i])

\* get_object_name(obj): the fully-qualified name of a class
get_object_name(obj) == "muh." \o obj

\* str[:-n]
StrDropLast(str, n) == SubSeq(str, 1, Len(str) - n)

Raised(exception) == [raised |-> exception, repr |-> ""]

Returned(repr) == [raised |-> "none", repr |-> repr]

\* The loop over the classes of a tuple: it raises at the first that is not
\* issubclassable, and otherwise appends each name and ", ".
RECURSIVE TupleLoop(_, _)
TupleLoop(base_classes, base_classes_repr) ==
    IF base_classes = <<>> THEN Returned(base_classes_repr)
    ELSE IF ~is_type_issubclassable(Head(base_classes))
    THEN Raised("BeartypeValeSubscriptionException")
    ELSE TupleLoop(Tail(base_classes),
             base_classes_repr \o get_object_name(Head(base_classes)) \o ", ")

\* Mutant: the suffixing ", " is not stripped.
Mutant_TupleReprNoStrip(base_classes) ==
    IF base_classes = <<>>
    THEN Raised("BeartypeValeSubscriptionException")
    ELSE TupleLoop(base_classes, "")

\* Mutant: an empty tuple is not refused.
Mutant_TupleReprEmptyAccepted(base_classes) ==
    LET looped == TupleLoop(base_classes, "")
    IN  IF looped.raised # "none" THEN looped
        ELSE Returned(StrDropLast(looped.repr, 2))

\* base_classes_repr of a tuple of classes, or the exception raised.
TupleRepr(base_classes) ==
    IF base_classes = <<>>
    THEN Raised("BeartypeValeSubscriptionException")
    ELSE LET looped == TupleLoop(base_classes, "")
         IN  IF looped.raised # "none" THEN looped
             ELSE Returned(StrDropLast(looped.repr, 2))

\* base_classes_repr of one class, or the exception raised.
BareRepr(base_class) ==
    IF ~is_type_issubclassable(base_class)
    THEN Raised("BeartypeValeSubscriptionException")
    ELSE Returned(get_object_name(base_class))

NoValidator ==
    [base_classes |-> Tuple(<<>>), get_repr |-> "", serial |-> 0,
     is_valid_code |-> "", is_valid_code_locals |-> EmptyMap]

\* id(obj) as text: the same for one object, different for two.
RECURSIVE JoinItems(_)
JoinItems(items) ==
    IF items = <<>> THEN "" ELSE "_" \o Head(items) \o JoinItems(Tail(items))

id(obj) == (IF obj.tuple THEN "tuple" ELSE "type") \o JoinItems(obj.items)

\* Mutant: the name is returned, but the attribute is not added to the
\* scope.
Mutant_add_func_scope_attrUnbound(attr, attr_scope) ==
    [name |-> "__beartype_object_" \o id(attr), scope |-> attr_scope]

\* add_func_scope_attr(attr, attr_scope): the attribute is added to the
\* scope under a name made from its identity, and that name is returned.
add_func_scope_attr(attr, attr_scope) ==
    [name |-> "__beartype_object_" \o id(attr),
     scope |-> (("__beartype_object_" \o id(attr)) :> attr) @@ attr_scope]

\* The snippet testing an object to be a subclass of the attribute named
\* param_name_base_cls.
CodeCheckPrefix == "(isinstance({obj}, type) and issubclass({obj}, "

CodeCheckSuffix == "))"

VALE_CODE_CHECK_ISSUBCLASS_format(param_name_base_cls) ==
    CodeCheckPrefix \o param_name_base_cls \o CodeCheckSuffix

\* The name the snippet refers to.
ReferencedName(is_valid_code) ==
    SubSeq(is_valid_code, Len(CodeCheckPrefix) + 1,
           Len(is_valid_code) - Len(CodeCheckSuffix))

\* The snippet evaluated on a pith in a scope: a name the scope does not
\* bind raises NameError.
EvalCode(is_valid_code, scope, pith) ==
    LET name == ReferencedName(is_valid_code)
    IN  IF name \notin DOMAIN scope
        THEN [raised |-> "NameError", verdict |-> FALSE]
        ELSE [raised |-> "none",
              verdict |-> /\ pith \in Classes
                          /\ \E i \in DOMAIN scope[name].items :
                                issubclass(pith, scope[name].items[i])]

\* The validator _SubscriptedIs(...) created for base_classes; serial tells
\* apart the objects created for one argument.
_SubscriptedIs(base_classes, get_repr, serial) ==
    LET added == add_func_scope_attr(base_classes, EmptyMap)
    IN  [base_classes |-> base_classes, get_repr |-> get_repr,
         serial |-> serial,
         is_valid_code |-> VALE_CODE_CHECK_ISSUBCLASS_format(added.name),
         is_valid_code_locals |-> added.scope]

\* Mutant: the check closes over the last class of a tuple only.
Mutant_is_validLastOnly(validator, pith) ==
    is_type_subclass(pith,
        Bare(validator.base_classes.items[Len(validator.base_classes.items)]))

\* Mutant: the arguments of is_type_subclass are swapped.
Mutant_is_validSwapped(validator, pith) ==
    /\ ~validator.base_classes.tuple
    /\ pith \in Classes
    /\ validator.base_classes.items[1] \in Classes
    /\ issubclass(validator.base_classes.items[1], pith)

\* is_valid(pith) of a validator
is_valid(validator, pith) == is_type_subclass(pith, validator.base_classes)

\* The body of __class_getitem__: the validator it returns, or the
\* exception it raises.
class_getitem_body(base_classes, serial) ==
    LET r == IF base_classes.tuple
             THEN TupleRepr(base_classes.items)
             ELSE BareRepr(base_classes.items[1])
    IN  IF r.raised # "none"
        THEN [raised |-> r.raised, value |-> NoValidator]
        ELSE [raised |-> "none",
              value |-> _SubscriptedIs(base_classes,
                            "IsSubclass" \o "[" \o r.repr \o "]", serial)]

\* The number of validators already created for base_classes.
Created(base_classes) ==
    Cardinality({v \in heap : v.base_classes = base_classes})

\* callable_cached: the memoized return value of an argument, if any.
IsCached(args) == args \in DOMAIN cache

CachedValue(args) == cache[args]

\* callable_cached: the cache after the return value of args is stored.
Memoize(args, value) == (args :> value) @@ cache

SubRaised(base_classes, exception) ==
    [arg |-> base_classes, outcome |-> exception, value |-> NoValidator,
     hit |-> FALSE]

SubReturned(base_classes, value, hit) ==
    [arg |-> base_classes, outcome |-> "validator", value |-> value,
     hit |-> hit]

\* Mutant: the method is not memoized.
Mutant_class_getitem_uncached ==
    /\ \E base_classes \in SubscriptionArgs :
        \E r \in {class_getitem_body(base_classes, Created(base_classes))} :
            IF r.raised # "none"
            THEN /\ lastSub' = SubRaised(base_classes, r.raised)
                 /\ UNCHANGED <<cache, heap>>
            ELSE /\ Cardinality(heap) < MaxValidators
                 /\ heap' = heap \cup {r.value}
                 /\ cache' = Memoize(base_classes, r.value)
                 /\ lastSub' = SubReturned(base_classes, r.value, FALSE)
    /\ UNCHANGED <<regVars, lastLookup, decoVars, restVars>>

\* Mutant: a raised exception is memoized as the return value.
Mutant_class_getitem_cachesFailure ==
    /\ \E base_classes \in SubscriptionArgs :
        IF IsCached(base_classes)
        THEN /\ lastSub' = SubReturned(base_classes, CachedValue(base_classes),
                                       TRUE)
             /\ UNCHANGED <<cache, heap>>
        ELSE \E r \in {class_getitem_body(base_classes, Created(base_classes))} :
            IF r.raised # "none"
            THEN /\ lastSub' = SubRaised(base_classes, r.raised)
                 /\ cache' = Memoize(base_classes, r.value)
                 /\ UNCHANGED heap
            ELSE /\ Cardinality(heap) < MaxValidators
                 /\ heap' = heap \cup {r.value}
                 /\ cache' = Memoize(base_classes, r.value)
                 /\ lastSub' = SubReturned(base_classes, r.value, FALSE)
    /\ UNCHANGED <<regVars, lastLookup, decoVars, restVars>>

\* IsSubclass[base_classes]: the memoized __class_getitem__.
IsSubclass__class_getitem__ ==
    /\ \E base_classes \in SubscriptionArgs :
        IF IsCached(base_classes)
        THEN /\ lastSub' = SubReturned(base_classes, CachedValue(base_classes),
                                       TRUE)
             /\ UNCHANGED <<cache, heap>>
        ELSE \E r \in {class_getitem_body(base_classes, Created(base_classes))} :
            IF r.raised # "none"
            THEN /\ lastSub' = SubRaised(base_classes, r.raised)
                 /\ UNCHANGED <<cache, heap>>
            ELSE /\ Cardinality(heap) < MaxValidators
                 /\ heap' = heap \cup {r.value}
                 /\ cache' = Memoize(base_classes, r.value)
                 /\ lastSub' = SubReturned(base_classes, r.value, FALSE)
    /\ UNCHANGED <<regVars, lastLookup, decoVars, restVars>>

(* IsSubclass subscripted by threads: callable_cached, operation by operation *)

Threads == {"t1", "t2"}

\* The arguments the threads subscript IsSubclass by.
RaceArgs == {Bare("BaseA"), Tuple(<<"BaseA">>), Bare("NotAType")}

Idle == [pc |-> "idle", arg |-> Tuple(<<>>), value |-> NoValidator]

At(pc, arg, value) == [pc |-> pc, arg |-> arg, value |-> value]

\* A thread begins a subscription: one read of the cache, which holds the
\* value to return or does not.
ThreadLookup(t) ==
    /\ threads[t].pc = "idle"
    /\ \E base_classes \in RaceArgs :
        threads' = [threads EXCEPT ![t] =
            IF IsCached(base_classes)
            THEN At("returned", base_classes, CachedValue(base_classes))
            ELSE At("missed", base_classes, NoValidator)]
    /\ UNCHANGED <<regVars, lastLookup, decoVars, valeVars, explainVars,
                   sampleVars, synthVars, moreVars>>

\* After a miss the thread runs the body of __class_getitem__, which raises
\* or creates a validator.
ThreadCall(t) ==
    /\ threads[t].pc = "missed"
    /\ \E r \in {class_getitem_body(threads[t].arg, Created(threads[t].arg))} :
        IF r.raised # "none"
        THEN /\ threads' = [threads EXCEPT ![t] =
                    At("raised", threads[t].arg, NoValidator)]
             /\ UNCHANGED heap
        ELSE /\ Cardinality(heap) < MaxValidators
             /\ heap' = heap \cup {r.value}
             /\ threads' = [threads EXCEPT ![t] =
                    At("created", threads[t].arg, r.value)]
    /\ UNCHANGED <<regVars, lastLookup, decoVars, cache, lastSub, explainVars,
                   sampleVars, synthVars, moreVars>>

\* Mutant: the write lands under the key another thread is writing.
Mutant_ThreadStoreTorn(t) ==
    /\ threads[t].pc = "created"
    /\ \E u \in Threads :
        cache' = IF threads[u].pc = "created"
                 THEN Memoize(threads[u].arg, threads[t].value)
                 ELSE Memoize(threads[t].arg, threads[t].value)
    /\ threads' = [threads EXCEPT ![t].pc = "returned"]
    /\ UNCHANGED <<regVars, lastLookup, decoVars, heap, lastSub, explainVars,
                   sampleVars, synthVars, moreVars>>

\* The thread writes the validator it created to the cache, one write, and
\* returns it.
ThreadStore(t) ==
    /\ threads[t].pc = "created"
    /\ cache' = Memoize(threads[t].arg, threads[t].value)
    /\ threads' = [threads EXCEPT ![t].pc = "returned"]
    /\ UNCHANGED <<regVars, lastLookup, decoVars, heap, lastSub, explainVars,
                   sampleVars, synthVars, moreVars>>

\* The subscription is over; the thread may subscript again.
ThreadDone(t) ==
    /\ threads[t].pc \in {"returned", "raised"}
    /\ threads' = [threads EXCEPT ![t] = Idle]
    /\ UNCHANGED <<regVars, lastLookup, decoVars, valeVars, explainVars,
                   sampleVars, synthVars, moreVars>>

(* The error explainer: represent_pith *)

\* The piths described: what type each is of, and what its repr() gives,
\* a string or an exception.
PyStr(text) == [raised |-> "none", text |-> text]

PyRaise(exception) == [raised |-> exception, text |-> ""]

Pith(module, name, repr) == [module |-> module, name |-> name, repr |-> repr]

ExplainedPiths == {
    Pith("builtins", "int", PyStr("42")),
    Pith("builtins", "int", PyStr("-1")),
    Pith("builtins", "str", PyStr("'int'")),
    Pith("builtins", "list", PyStr("[]")),
    Pith("muh", "CustomType", PyStr("Collaborator-ily brambling unspiritually")),
    Pith("muh", "EmptyRepr", PyStr("")),
    Pith("muh", "BrokenRepr", PyRaise("ValueError")) }

\* type(pith)
type(pith) == [module |-> pith.module, name |-> pith.name]

\* label_type(cls): the name of a builtin type, the fully-qualified name
\* of any other.
label_type(cls) ==
    PyStr(IF cls.module = "builtins" THEN cls.name
          ELSE cls.module \o "." \o cls.name)

GenericLabel == "<unrepresentable>"

\* Mutant: an exception raised by the pith's __repr__() is let through.
Mutant_represent_objectRaw(obj) == obj.repr

\* represent_object(obj): repr(obj), or a generic label if that fails.
represent_object(obj) ==
    IF obj.repr.raised # "none" THEN PyStr(GenericLabel) ELSE obj.repr

\* Mutant: the type label is left out.
Mutant_represent_pithNoLabel(pith) == represent_object(pith)

\* represent_pith(pith): an f-string of the two, which raises if either
\* of them does.
represent_pith(pith) ==
    LET label == label_type(type(pith))
        repr  == represent_object(pith)
    IN  IF label.raised # "none" THEN label
        ELSE IF repr.raised # "none" THEN repr
        ELSE PyStr(label.text \o " " \o repr.text)

\* A type check failed on pith, which is described for the message.
RepresentPith ==
    /\ Len(messages) < MaxMessages
    /\ \E pith \in ExplainedPiths :
        messages' = Append(messages,
                           [pith |-> pith, result |-> represent_pith(pith)])
    /\ UNCHANGED <<regVars, lastLookup, decoVars, valeVars, raceVars,
                   sampleVars, synthVars, moreVars>>

(* Deep checks of containers by a generated wrapper *)

\* getrandbits(k): an integer of k bits
getrandbits(k) == 0..(2^k - 1)

\* Python's a % n for a >= 0 and n >= 0: it raises if n is 0.
PyMod(a, n) ==
    IF n = 0 THEN [raised |-> "ZeroDivisionError", value |-> 0]
    ELSE [raised |-> "none", value |-> a % n]

\* A container: its length and the indices of the items that violate the
\* hint of its items.
Container(len, bad) == [len |-> len, bad |-> bad]

\* The lengths of the containers checked: empty, short, and longer than
\* the largest random integer.
ContainerLens == {0, 1, 2, 3, 2^RandomBits + 1}

Containers ==
    {Container(len, {}) : len \in ContainerLens}
    \cup UNION {{Container(len, {i}) : i \in 0..(len - 1)} :
                   len \in ContainerLens}

NotSampled == [status |-> "none", random_int |-> 0]

\* The start of a call of a wrapper: CODE_INIT_RANDOM_INT localizes one
\* random integer for the call.
WrapperInitRandomInt ==
    /\ \E random_int \in getrandbits(RandomBits) :
        sampled' = [status |-> "called", random_int |-> random_int]
    /\ UNCHANGED <<regVars, lastLookup, decoVars, valeVars, raceVars,
                   explainVars, synthVars, moreVars>>

\* Mutant: the index is taken modulo one more than the length.
Mutant_SelectIndexPastEnd(random_int, len) == PyMod(random_int, len + 1)

\* The index of the one item checked: the call's random integer modulo the
\* container's length.
SelectIndex(random_int, len) == PyMod(random_int, len)

\* Mutant: an empty container is not passed without selecting an item.
Mutant_deep_checkNoShortCircuit(random_int, container) ==
    LET selected == SelectIndex(random_int, container.len)
    IN  IF selected.raised # "none"
        THEN [raised |-> selected.raised, index |-> {}, verdict |-> "none"]
        ELSE [raised |-> "none", index |-> {selected.value},
              verdict |-> IF selected.value \in container.bad
                          THEN "violation" ELSE "pass"]

\* The deep check of a container: an empty one passes; of any other the
\* one item selected is checked.
deep_check(random_int, container) ==
    IF container.len = 0
    THEN [raised |-> "none", index |-> {}, verdict |-> "pass"]
    ELSE LET selected == SelectIndex(random_int, container.len)
         IN  IF selected.raised # "none"
             THEN [raised |-> selected.raised, index |-> {},
                   verdict |-> "none"]
             ELSE [raised |-> "none", index |-> {selected.value},
                   verdict |-> IF selected.value \in container.bad
                               THEN "violation" ELSE "pass"]

\* A deep check within the call, by the call's random integer.
DeepCheck ==
    /\ sampled.status \in {"called", "checked"}
    /\ \E container \in Containers :
        sampled' = [status |-> "checked", random_int |-> sampled.random_int,
                    container |-> container,
                    check |-> deep_check(sampled.random_int, container)]
    /\ UNCHANGED <<regVars, lastLookup, decoVars, valeVars, raceVars,
                   explainVars, synthVars, moreVars>>

\* The call returns or raises its violation.
WrapperReturn ==
    /\ sampled.status = "checked"
    /\ sampled' = NotSampled
    /\ UNCHANGED <<regVars, lastLookup, decoVars, valeVars, raceVars,
                   explainVars, synthVars, moreVars>>

(* Generated wrappers: the names they declare *)

ARG_NAME_FUNC == "__beartype_func"

ARG_NAME_GETRANDBITS == "__beartype_getrandbits"

ARG_NAME_RAISE_EXCEPTION == "__beartype_raise_exception"

ARG_NAME_TYPISTRY == "__beartypistry"

VAR_NAME_ARGS_LEN == "__beartype_args_len"

VAR_NAME_RANDOM_INT == "__beartype_random_int"

\* Names a caller may give the parameters of a decorated callable; none
\* begins with "__beartype_".
CallerParamNames == {"x", "muh_arg", "_beartype_func", "__beartypistry"}

NotGenerated == [status |-> "none"]

\* The wrapper generated for a callable: CODE_SIGNATURE declares *args, the
\* beartype-specific parameters it needs and **kwargs, through which the
\* callable's own parameters are passed; the body declares the locals.
GenerateWrapper ==
    /\ \E params \in SUBSET CallerParamNames, is_random \in BOOLEAN,
          is_typistry \in BOOLEAN, is_positional \in BOOLEAN :
        /\ Cardinality(params) <= MaxParams
        /\ generated' =
              [status |-> "generated",
               params |-> params,
               wrapper_params |->
                   {ARG_NAME_FUNC, ARG_NAME_RAISE_EXCEPTION}
                   \cup (IF is_random THEN {ARG_NAME_GETRANDBITS} ELSE {})
                   \cup (IF is_typistry THEN {ARG_NAME_TYPISTRY} ELSE {}),
               wrapper_locals |->
                   (IF is_positional THEN {VAR_NAME_ARGS_LEN} ELSE {})
                   \cup (IF is_random THEN {VAR_NAME_RANDOM_INT} ELSE {})]
    /\ UNCHANGED <<regVars, lastLookup, decoVars, valeVars, raceVars,
                   explainVars, sampleVars,
                   moreVars>>

(* get_hint_isinstanceable_type_or_none *)

\* An object passed as a hint: whether it is a class and whether it can be
\* hashed.
HintObject(name, is_class, hashable) ==
    [name |-> name, is_class |-> is_class, hashable |-> hashable]

Class(name) == HintObject(name, TRUE, TRUE)

\* Argumentless typing attributes and the isinstanceable superclass of each.
TYPING_ATTR_ARGLESS_TO_TYPE ==
    ("typing.List" :> Class("<class 'list'>"))
    @@ ("typing.Hashable" :> Class("<class 'collections.abc.Hashable'>"))
    @@ ("typing.Sized" :> Class("<class 'collections.abc.Sized'>"))

\* The objects the getter is called with: classes, argumentless typing
\* attributes, a string, and unhashable objects.
GetterHints ==
    { Class("<class 'str'>"), Class("<class 'muh.MuhClass'>"),
      HintObject("typing.List", FALSE, TRUE),
      HintObject("typing.Hashable", FALSE, TRUE),
      HintObject("typing.Sized", FALSE, TRUE),
      HintObject("'Growth for the sake of growth'", FALSE, TRUE),
      HintObject("[]", FALSE, FALSE),
      HintObject("{}", FALSE, FALSE) }

GetReturned(value) == [raised |-> "none", is_none |-> FALSE, value |-> value]

GetNone == [raised |-> "none", is_none |-> TRUE, value |-> Class("")]

GetRaised(exception) ==
    [raised |-> exception, is_none |-> FALSE, value |-> Class("")]

\* Mutant: an object that is neither a class nor a typing attribute is
\* returned as it is.
Mutant_getterReturnsHint(hint) ==
    IF ~hint.hashable THEN GetRaised("TypeError")
    ELSE IF hint.is_class THEN GetReturned(hint)
    ELSE IF hint.name \in DOMAIN TYPING_ATTR_ARGLESS_TO_TYPE
    THEN GetReturned(TYPING_ATTR_ARGLESS_TO_TYPE[hint.name])
    ELSE GetReturned(hint)

\* The getter: hashing an unhashable hint raises; a class is returned as it
\* is; any other hint is looked up among the argumentless typing attributes.
get_hint_isinstanceable_type_or_none(hint) ==
    IF ~hint.hashable THEN GetRaised("TypeError")
    ELSE IF hint.is_class THEN GetReturned(hint)
    ELSE IF hint.name \in DOMAIN TYPING_ATTR_ARGLESS_TO_TYPE
    THEN GetReturned(TYPING_ATTR_ARGLESS_TO_TYPE[hint.name])
    ELSE GetNone

GetIsinstanceableType ==
    /\ Len(gotten) < MaxGets
    /\ \E hint \in GetterHints :
        gotten' = Append(gotten,
            [hint |-> hint,
             result |-> get_hint_isinstanceable_type_or_none(hint)])
    /\ UNCHANGED <<regVars, lastLookup, decoVars, valeVars, raceVars,
                   explainVars, sampleVars, synthVars, frames>>

(* Invocations of a generated wrapper *)

Invocations == {"i1", "i2"}

NoFrame == [pc |-> "none"]

\* The decorated callable, and the wrapper that replaces it.
DecoratedCallable == "muh_func"

WrapperFunction == "muh_func_wrapper"

\* The global scope after decoration: the name of the decorated callable
\* is bound to the wrapper.
Globals == ("muh_func" :> WrapperFunction)

\* The keyword-only parameters of the wrapper and their defaults.
WrapperDefaults(is_random) ==
    IF is_random
    THEN (ARG_NAME_FUNC :> DecoratedCallable)
         @@ (ARG_NAME_GETRANDBITS :> "getrandbits")
    ELSE (ARG_NAME_FUNC :> DecoratedCallable)

\* What callers pass: positional arguments, and keyword arguments as
\* name-value pairs in the order given.
Passed(args, kwargs) == [args |-> args, kwargs |-> kwargs]

PassedArguments ==
    { Passed(<<>>, <<>>),
      Passed(<<1, 2>>, <<>>),
      Passed(<<2, 1>>, << <<"x", 1>>, <<"muh_arg", 2>> >>),
      Passed(<<1>>, << <<"muh_arg", 2>>, <<"x", 1>> >>) }

\* Python's binding of a call to "def wrapper(*args, <params>, **kwargs)":
\* a keyword argument named as a parameter is bound to it, every other one
\* is kept in kwargs in the order given; positional arguments go to args.
BindParams(defaults, passed) ==
    [name \in DOMAIN defaults |->
        IF \E k \in DOMAIN passed.kwargs : passed.kwargs[k][1] = name
        THEN passed.kwargs[CHOOSE k \in DOMAIN passed.kwargs :
                              passed.kwargs[k][1] = name][2]
        ELSE defaults[name]]

IsExtraKeyword(defaults, pair) == pair[1] \notin DOMAIN defaults

BindKwargs(defaults, passed) ==
    LET Extra(pair) == IsExtraKeyword(defaults, pair)
    IN  SelectSeq(passed.kwargs, Extra)

\* The value the decorated callable returns for the arguments it is given.
FuncResult(args, kwargs) ==
    [returned_by |-> DecoratedCallable, args |-> args, kwargs |-> kwargs]

\* A caller invokes the wrapper.
WrapperCall(i) ==
    /\ frames[i].pc = "none"
    /\ \E passed \in PassedArguments, is_random \in BOOLEAN :
        frames' = [frames EXCEPT ![i] =
            [pc |-> "body",
             is_random |-> is_random,
             passed |-> passed,
             args |-> passed.args,
             kwargs |-> BindKwargs(WrapperDefaults(is_random), passed),
             params |-> BindParams(WrapperDefaults(is_random), passed),
             random_int |-> 0,
             generated |-> 0,
             reads |-> <<>>,
             calls |-> <<>>,
             returned |-> {}]]
    /\ UNCHANGED <<regVars, lastLookup, decoVars, valeVars, raceVars,
                   explainVars, sampleVars, synthVars, gotten>>

\* CODE_INIT_RANDOM_INT in the body of invocation i: the local is assigned
\* the value getrandbits returns.
FrameInitRandomInt(i) ==
    /\ frames[i].pc = "body"
    /\ frames[i].is_random
    /\ \E random_int \in getrandbits(RandomBits) :
        frames' = [frames EXCEPT ![i].random_int = random_int,
                                 ![i].generated = @ + 1,
                                 ![i].pc = "checks"]
    /\ UNCHANGED <<regVars, lastLookup, decoVars, valeVars, raceVars,
                   explainVars, sampleVars, synthVars, gotten>>

\* Mutant: the random integer is a variable all invocations share, so a
\* check reads what the other invocation assigned last.
Mutant_ReadRandomIntShared(fs, i) ==
    LET j == CHOOSE j \in Invocations : j # i
    IN  IF fs[j].pc # "none" /\ fs[j].generated > 0
        THEN fs[j].random_int
        ELSE fs[i].random_int

\* A sampled check of invocation i reads the local of its own frame.
ReadRandomInt(fs, i) == fs[i].random_int

FrameSampledCheck(i) ==
    /\ frames[i].pc = "checks"
    /\ Len(frames[i].reads) < MaxChecks
    /\ frames' = [frames EXCEPT
                    ![i].reads = Append(@, ReadRandomInt(frames, i))]
    /\ UNCHANGED <<regVars, lastLookup, decoVars, valeVars, raceVars,
                   explainVars, sampleVars, synthVars, gotten>>

\* Mutant: the callable is looked up by its name in the global scope.
Mutant_CalleeFromGlobals(frame) == Globals["muh_func"]

\* The callable CODE_RETURN_UNCHECKED calls: the value of the wrapper's
\* parameter ARG_NAME_FUNC.
Callee(frame) == frame.params[ARG_NAME_FUNC]

\* CODE_RETURN_UNCHECKED: return __beartype_func(*args, **kwargs)
FrameReturnUnchecked(i) ==
    /\ \/ frames[i].pc = "checks"
       \/ frames[i].pc = "body" /\ ~frames[i].is_random
    /\ frames' = [frames EXCEPT
          ![i].calls = Append(@, [callee |-> Callee(frames[i]),
                                  args |-> frames[i].args,
                                  kwargs |-> frames[i].kwargs]),
          ![i].returned = {FuncResult(frames[i].args, frames[i].kwargs)},
          ![i].pc = "returned"]
    /\ UNCHANGED <<regVars, lastLookup, decoVars, valeVars, raceVars,
                   explainVars, sampleVars, synthVars, gotten>>

\* The frame of a returned invocation is discarded.
FrameExit(i) ==
    /\ frames[i].pc = "returned"
    /\ frames' = [frames EXCEPT ![i] = NoFrame]
    /\ UNCHANGED <<regVars, lastLookup, decoVars, valeVars, raceVars,
                   explainVars, sampleVars, synthVars, gotten>>

(* Specifications *)

Init ==
    /\ pyver \in PyVersions
    /\ HINT_REPR_PREFIX_ARGS_0_OR_MORE_TO_SIGN =
           HINT_REPR_PREFIX_ARGS_0_OR_MORE_TO_SIGN_literal
    /\ HINT_REPR_PREFIX_ARGS_1_OR_MORE_TO_SIGN =
           HINT_REPR_PREFIX_ARGS_1_OR_MORE_TO_SIGN_literal
    /\ HINT_TYPE_NAME_TO_SIGN = HINT_TYPE_NAME_TO_SIGN_literal
    /\ HINTS_REPR_IGNORABLE_SHALLOW = HINTS_REPR_IGNORABLE_SHALLOW_literal
    /\ HINTS_REPR_PREFIX_DEPRECATED = HINTS_REPR_PREFIX_DEPRECATED_literal
    /\ HINTS_PEP484_REPR_PREFIX_DEPRECATED =
           HINTS_PEP484_REPR_PREFIX_DEPRECATED_literal
    /\ initRuns = 0
    /\ initOutcome = "none"
    /\ lastLookup = [fn |-> "none", key |-> "", result |-> NotFound]
    /\ wrappers = [f \in Callables |-> NotDecorated]
    /\ invocations = [f \in Callables |-> 0]
    /\ cache = EmptyMap
    /\ heap = {}
    /\ lastSub = [arg |-> Tuple(<<>>), outcome |-> "none",
                  value |-> NoValidator, hit |-> FALSE]
    /\ threads = [t \in Threads |-> Idle]
    /\ messages = <<>>
    /\ sampled = NotSampled
    /\ generated = NotGenerated
    /\ gotten = <<>>
    /\ frames = [i \in Invocations |-> NoFrame]

NextRegistry == _init \/ LookupRepr \/ LookupClassname

SpecRegistry == Init /\ [][NextRegistry]_vars

NextClassify == _init \/ Decorate \/ Call

SpecClassify == Init /\ [][NextClassify]_vars

NextPipeline ==
    _init \/ DecorateClassify \/ DecorateSynthesize \/ DecorateCompile \/ Call

SpecPipeline == Init /\ [][NextPipeline]_vars

NextVale == IsSubclass__class_getitem__

\* IsSubclass has no code that depends on the interpreter's version.
InitVale == Init /\ pyver = 39

SpecVale == InitVale /\ [][NextVale]_vars

NextRace ==
    \E t \in Threads :
        ThreadLookup(t) \/ ThreadCall(t) \/ ThreadStore(t) \/ ThreadDone(t)

SpecRace == Init /\ [][NextRace]_vars

NextExplain == RepresentPith

SpecExplain == Init /\ [][NextExplain]_vars

NextSample == WrapperInitRandomInt \/ DeepCheck \/ WrapperReturn

SpecSample == Init /\ [][NextSample]_vars

NextSynth == GenerateWrapper

SpecSynth == Init /\ [][NextSynth]_vars

NextIgnorable == _init \/ TestIgnorable \/ TestIgnorableSubscripted

SpecIgnorable == Init /\ [][NextIgnorable]_vars

NextGetter == GetIsinstanceableType

SpecGetter == Init /\ [][NextGetter]_vars

NextFrames ==
    \E i \in Invocations :
        \/ WrapperCall(i)
        \/ FrameInitRandomInt(i)
        \/ FrameSampledCheck(i)
        \/ FrameReturnUnchecked(i)
        \/ FrameExit(i)

SpecFrames == Init /\ [][NextFrames]_vars

(* Properties of the registry *)

Signs == {HintSignNames[i] : i \in 1..Len(HintSignNames)}

RegistryDicts == <<HINT_REPR_PREFIX_ARGS_0_OR_MORE_TO_SIGN,
                   HINT_REPR_PREFIX_ARGS_1_OR_MORE_TO_SIGN,
                   HINT_TYPE_NAME_TO_SIGN>>

RegistrySets == <<HINTS_REPR_IGNORABLE_SHALLOW,
                  HINTS_REPR_PREFIX_DEPRECATED,
                  HINTS_PEP484_REPR_PREFIX_DEPRECATED>>

\* The signs the three tables bind key k to.
SignsOf(k) == {RegistryDicts[i].map[k] :
                  i \in {j \in 1..3 : k \in DOMAIN RegistryDicts[j].map}}

RegisteredKeys == UNION {DOMAIN RegistryDicts[i].map : i \in 1..3}

Range(seq) == {seq[i] : i \in DOMAIN seq}

\* Every write _init() makes into the zero-or-more table on this interpreter.
WritesArgs0 ==
    Range(Python36Pairs(pyver))
    \cup UNION {Range(SignPairs(DirDatapepsigns, m, pyver))
                : m \in TYPING_MODULE_NAMES}

\* Every write _init() makes into the classname table on this interpreter.
WritesTypeName ==
    UNION {Range(TypePairs(m, pyver)) : m \in TYPING_MODULE_NAMES}

C8_State ==
    /\ \A k \in RegisteredKeys :
          /\ Cardinality(SignsOf(k)) = 1
          /\ SignsOf(k) \subseteq Signs
    /\ \A w \in WritesArgs0 :
          DictGet(HINT_REPR_PREFIX_ARGS_0_OR_MORE_TO_SIGN, w[1]) = w[2]
    /\ \A w \in WritesTypeName :
          DictGet(HINT_TYPE_NAME_TO_SIGN, w[1]) = w[2]
    /\ \A k \in DOMAIN HINT_REPR_PREFIX_ARGS_0_OR_MORE_TO_SIGN.map
             \cup DOMAIN HINT_REPR_PREFIX_ARGS_1_OR_MORE_TO_SIGN.map :
          /\ classify_repr(k) # NotFound
          /\ classify_repr(k) \in SignsOf(k)
    /\ \A k \in DOMAIN HINT_TYPE_NAME_TO_SIGN.map :
          /\ classify_classname(k) # NotFound
          /\ classify_classname(k) \in SignsOf(k)
    /\ lastLookup.key \in RegisteredKeys /\ lastLookup.result # NotFound
          => lastLookup.result \in SignsOf(lastLookup.key)

C8_Stable ==
    /\ \A k \in ReprUniverse : classify_repr(k)' = classify_repr(k)
    /\ \A k \in ClassnameUniverse :
          classify_classname(k)' = classify_classname(k)

\* C8: after initialization every registered key is bound to exactly one
\* sign, within each table and across the three tables, a lookup of a
\* registered key never returns NotFound, and every lookup returns the same
\* sign from one step to the next.
C8_UniqueStableSign ==
    /\ [](initRuns >= 1 => C8_State)
    /\ [][initRuns >= 1 => C8_Stable]_vars

\* C8 witness: on an interpreter with name corrections, a corrected key has
\* been looked up after a second call of _init().
C8_Witness ==
    /\ initRuns >= 2
    /\ pyver = 38
    /\ lastLookup = [fn |-> "classify_repr",
                     key |-> "typing.AbstractContextManager",
                     result |-> "HintSignContextManager"]

IsFrozen(obj) == obj.kind = "frozenset"

\* C9 as stated: once _init() has completed, every registry table is a
\* frozen (immutable) object.
C9_AllTablesFrozen ==
    initRuns >= 1 =>
        /\ \A i \in 1..3 : IsFrozen(RegistryDicts[i])
        /\ \A i \in 1..3 : IsFrozen(RegistrySets[i])

\* C9 amended: once _init() has completed, the shallow-ignorable set and
\* both deprecated-prefix sets are frozensets, the three sign tables are
\* plain dicts, and no operation changes the contents of any of the six.
C9_SetsFrozenContentsKept ==
    /\ [](initRuns >= 1 =>
            /\ \A i \in 1..3 : IsFrozen(RegistrySets[i])
            /\ \A i \in 1..3 : RegistryDicts[i].kind = "dict")
    /\ [][initRuns >= 1 =>
            /\ RegistryDicts' = RegistryDicts
            /\ RegistrySets' = RegistrySets]_vars

\* C9 witness: _init() was called again after it had completed, and a
\* lookup followed.
C9_Witness ==
    /\ initRuns >= 2
    /\ lastLookup.fn # "none"
    /\ IsFrozen(HINTS_REPR_IGNORABLE_SHALLOW)

\* The objects the globals are bound to after the first call of _init().
FirstRun(v) ==
    Construction(v, CHOOSE o \in ModuleOrders : TRUE,
        HINT_REPR_PREFIX_ARGS_0_OR_MORE_TO_SIGN_literal,
        HINT_TYPE_NAME_TO_SIGN_literal,
        HINTS_REPR_IGNORABLE_SHALLOW_literal,
        HINTS_PEP484_REPR_PREFIX_DEPRECATED_literal)

\* C10 as stated: a second call of _init() terminates normally and leaves
\* every table equal to its value after the first call.
C10_ReinitIdempotent ==
    initRuns >= 2 =>
        /\ initOutcome = "ok"
        /\ HINT_REPR_PREFIX_ARGS_0_OR_MORE_TO_SIGN = FirstRun(pyver).t0
        /\ HINT_TYPE_NAME_TO_SIGN = FirstRun(pyver).tn
        /\ HINT_REPR_PREFIX_ARGS_1_OR_MORE_TO_SIGN =
               HINT_REPR_PREFIX_ARGS_1_OR_MORE_TO_SIGN_literal
        /\ HINTS_REPR_IGNORABLE_SHALLOW = Freeze(FirstRun(pyver).ign)
        /\ HINTS_PEP484_REPR_PREFIX_DEPRECATED = Freeze(FirstRun(pyver).dep)
        /\ HINTS_REPR_PREFIX_DEPRECATED = Freeze(FirstRun(pyver).dep)

(* Properties of classification *)

InNoTable(h) ==
    /\ h.repr \notin DOMAIN HINT_REPR_PREFIX_ARGS_0_OR_MORE_TO_SIGN.map
    /\ h.repr \notin DOMAIN HINT_REPR_PREFIX_ARGS_1_OR_MORE_TO_SIGN.map
    /\ h.typename \notin DOMAIN HINT_TYPE_NAME_TO_SIGN.map

\* C1: decoration raises "unrecognized hint" exactly when the hint is found
\* in none of the three tables (the prefix tables by its representation
\* prefix, the classname table by the name of its class) and is no plain
\* isinstanceable type; the error names the hint's representation and the
\* callable has not been invoked; a plain type found in no table is
\* accepted with the implicit isinstance sign.
C1_UnrecognizedIffAbsent ==
    \A f \in Callables :
        wrappers[f] # NotDecorated =>
            LET r == wrappers[f].result
                h == r.hint
            IN  /\ wrappers[f].status = "raised"
                      <=> (InNoTable(h) /\ ~h.is_type)
                /\ wrappers[f].status = "raised" =>
                      /\ r.error = "unrecognized hint"
                      /\ r.repr = h.repr
                      /\ invocations[f] = 0
                /\ wrappers[f].status = "wrapped" =>
                      /\ r.error = ""
                      /\ r.sign # NotFound
                      /\ (InNoTable(h) /\ h.is_type) => r.sign = SignIsinstance
                      /\ ~InNoTable(h) => r.sign \in Signs

\* C1 witness: one decoration raised on a never-registered representation,
\* another accepted bare list with the implicit sign and was then called.
C1_Witness ==
    /\ wrappers["f"].status = "raised"
    /\ wrappers["f"].result.repr = "muh.Unregistered"
    /\ wrappers["g"].status = "wrapped"
    /\ wrappers["g"].result.repr = "<class 'list'>"
    /\ wrappers["g"].result.sign = SignIsinstance
    /\ invocations["g"] >= 1

(* Properties of IsSubclass *)

SubscriptionException == "BeartypeValeSubscriptionException"

\* An invalid argument: an empty tuple, or an object or a
\* tuple element that is no issubclassable type.
InvalidArg(arg) ==
    \/ arg.tuple /\ arg.items = <<>>
    \/ \E i \in DOMAIN arg.items : ~is_type_issubclassable(arg.items[i])

\* C2: a subscription raises BeartypeValeSubscriptionException, and yields
\* and caches no validator, exactly when its argument is an empty tuple, one
\* object that is no issubclassable type, or a tuple holding such an object;
\* every other subscription returns a validator.
C2_RaisesIffInvalid ==
    /\ lastSub.outcome # "none" =>
          /\ lastSub.outcome = SubscriptionException <=> InvalidArg(lastSub.arg)
          /\ lastSub.outcome = SubscriptionException =>
                /\ lastSub.value = NoValidator
                /\ lastSub.arg \notin DOMAIN cache
          /\ lastSub.outcome # SubscriptionException =>
                /\ lastSub.outcome = "validator"
                /\ lastSub.value \in heap
                /\ lastSub.value.base_classes = lastSub.arg
    /\ \A arg \in DOMAIN cache : ~InvalidArg(arg)

\* C2 witness: after a validator was made, a tuple whose second element is
\* no type was refused.
C2_Witness ==
    /\ lastSub.outcome = SubscriptionException
    /\ lastSub.arg = Tuple(<<"BaseA", "NotAType">>)
    /\ Bare("BaseA") \in DOMAIN cache

\* C3: the validator of a tuple of classes accepts a value exactly when the
\* value is a class that is a subclass of at least one of them.
C3_AcceptsIffSubclassOfAny ==
    \A arg \in DOMAIN cache : \A pith \in Piths :
        is_valid(cache[arg], pith) <=>
            /\ pith \in Classes
            /\ \E i \in DOMAIN arg.items : arg.items[i] \in Ancestors(pith)

\* C3 witness: IsSubclass[BaseA, BaseB] exists; it accepts a subclass of
\* BaseA only, a subclass of both, and rejects an unrelated class and an
\* object that is no class.
C3_Witness ==
    /\ Tuple(<<"BaseA", "BaseB">>) \in DOMAIN cache
    /\ is_valid(cache[Tuple(<<"BaseA", "BaseB">>)], "SubSubA")
    /\ is_valid(cache[Tuple(<<"BaseA", "BaseB">>)], "SubAB")
    /\ is_valid(cache[Tuple(<<"BaseA", "BaseB">>)], "BaseB")
    /\ ~is_valid(cache[Tuple(<<"BaseA", "BaseB">>)], "Other")
    /\ ~is_valid(cache[Tuple(<<"BaseA", "BaseB">>)], "NotAType")

\* C4 as stated: a subscription by two or more arguments raises
\* BeartypeValeSubscriptionException.
C4_TwoOrMoreRaises ==
    (lastSub.outcome # "none" /\ lastSub.arg.tuple
        /\ Len(lastSub.arg.items) >= 2)
    => lastSub.outcome = SubscriptionException

C5_State ==
    /\ \A v, w \in heap : v.base_classes = w.base_classes => v = w
    /\ \A arg \in DOMAIN cache :
          /\ cache[arg] \in heap
          /\ cache[arg].base_classes = arg
    /\ lastSub.outcome = "validator" =>
          /\ lastSub.arg \in DOMAIN cache
          /\ lastSub.value = cache[lastSub.arg]

C5_Step ==
    /\ \A arg \in DOMAIN cache :
          /\ arg \in DOMAIN cache'
          /\ cache'[arg] = cache[arg]
          /\ cache'[arg].get_repr = cache[arg].get_repr
    /\ (lastSub'.outcome = "validator" /\ lastSub'.arg \in DOMAIN cache) =>
          lastSub'.value = cache[lastSub'.arg]

\* C5: subscription is memoized: a subscription by an argument equal to an
\* earlier one returns the very validator object the earlier one returned,
\* with the same representation, and no argument has two validators.
C5_Memoized ==
    /\ []C5_State
    /\ [][C5_Step]_vars

\* C5 witness: a subscription was answered from the cache while the cache
\* held validators of other arguments too.
C5_Witness ==
    /\ lastSub.outcome = "validator"
    /\ lastSub.hit
    /\ lastSub.arg = Tuple(<<"BaseA", "BaseB">>)
    /\ Tuple(<<"BaseB", "BaseA">>) \in DOMAIN cache
    /\ Cardinality(heap) = MaxValidators

\* C6: the validators of IsSubclass[C] and IsSubclass[C,] accept the same
\* values.
C6_BareEqualsOneTuple ==
    \A c \in ArgObjects :
        (Bare(c) \in DOMAIN cache /\ Tuple(<<c>>) \in DOMAIN cache) =>
            \A pith \in Piths :
                is_valid(cache[Bare(c)], pith)
                    <=> is_valid(cache[Tuple(<<c>>)], pith)

\* C6 witness: both forms were subscribed for BaseA, and they are distinct
\* validators that accept a subclass of BaseA.
C6_Witness ==
    /\ Bare("BaseA") \in DOMAIN cache
    /\ Tuple(<<"BaseA">>) \in DOMAIN cache
    /\ cache[Bare("BaseA")] # cache[Tuple(<<"BaseA">>)]
    /\ is_valid(cache[Bare("BaseA")], "SubA")

\* str.join: the strings of a sequence with sep between neighbours.
RECURSIVE Join(_, _)
Join(strs, sep) ==
    IF strs = <<>> THEN ""
    ELSE IF Len(strs) = 1 THEN strs[1]
    ELSE strs[1] \o sep \o Join(Tail(strs), sep)

\* C7: the representation of a validator is "IsSubclass[", the
\* fully-qualified names of the subscripting classes in input order joined
\* by ", ", then "]".
C7_ReprListsNames ==
    /\ \A arg \in DOMAIN cache :
          cache[arg].get_repr =
              "IsSubclass[" \o
              Join([i \in DOMAIN arg.items |-> get_object_name(arg.items[i])],
                   ", ") \o "]"
    /\ \A c \in ArgObjects :
          (Bare(c) \in DOMAIN cache /\ Tuple(<<c>>) \in DOMAIN cache) =>
              cache[Bare(c)].get_repr = cache[Tuple(<<c>>)].get_repr

\* C7 witness: representations of a bare class and of a two-element tuple.
C7_Witness ==
    /\ Bare("BaseB") \in DOMAIN cache
    /\ cache[Bare("BaseB")].get_repr = "IsSubclass[muh.BaseB]"
    /\ Tuple(<<"BaseB", "BaseA">>) \in DOMAIN cache
    /\ cache[Tuple(<<"BaseB", "BaseA">>)].get_repr
           = "IsSubclass[muh.BaseB, muh.BaseA]"

(* Properties of failed operations *)

\* Every memoized value is the validator a first subscription with that
\* argument returns, whatever failed before it.
C11_State ==
    \A arg \in DOMAIN cache :
        /\ class_getitem_body(arg, 0).raised = "none"
        /\ cache[arg] = class_getitem_body(arg, 0).value

\* A step in which a subscription or a decoration raises changes neither
\* the registry tables nor the memoization cache nor the validators.
C11_Step ==
    /\ (lastSub' # lastSub /\ lastSub'.outcome = SubscriptionException)
           => UNCHANGED <<regVars, cache, heap>>
    /\ (\E f \in Callables : /\ wrappers[f] = NotDecorated
                              /\ wrappers'[f].status = "raised")
           => UNCHANGED <<regVars, valeVars>>

IsPrefix(t, u) == Len(t) <= Len(u) /\ t = SubSeq(u, 1, Len(t))

\* The stages entered are an initial part of the pipeline; there is a
\* wrapper only when all three succeeded, and a decoration that raised has
\* none; a callable without a wrapper was never called through one.
C12_State ==
    \A f \in Callables :
        /\ IsPrefix(StagesOf(wrappers[f]), Pipeline)
        /\ wrappers[f] # NotDecorated =>
              /\ wrappers[f].status \in {"decorating", "wrapped", "raised"}
              /\ wrappers[f].status = "wrapped" =>
                    wrappers[f].trace = Pipeline /\ wrappers[f].result.ok
              /\ wrappers[f].status = "decorating" =>
                    wrappers[f].trace # Pipeline /\ wrappers[f].result.ok
              /\ wrappers[f].status = "raised" => ~wrappers[f].result.ok
        /\ (wrappers[f] = NotDecorated \/ wrappers[f].status # "wrapped")
              => invocations[f] = 0

\* Each step of a decoration enters the next stage, once; a decoration
\* that raised or finished takes no further step; other callables'
\* decorations are left as they are; only a finished wrapper is called.
C12_Step ==
    \A f \in Callables :
        /\ wrappers'[f] # wrappers[f] =>
              /\ wrappers[f] = NotDecorated \/ wrappers[f].status = "decorating"
              /\ Len(StagesOf(wrappers[f])) < Len(Pipeline)
              /\ StagesOf(wrappers'[f]) =
                    Append(StagesOf(wrappers[f]),
                           Pipeline[Len(StagesOf(wrappers[f])) + 1])
              /\ \A g \in Callables \ {f} : wrappers'[g] = wrappers[g]
              /\ invocations' = invocations
        /\ invocations'[f] # invocations[f] =>
              /\ wrappers[f] # NotDecorated
              /\ wrappers[f].status = "wrapped"

\* C12: the decoration of a callable runs Classify, Synthesize, Compile in
\* this order, each at most once; a failure in a stage ends it without a
\* usable wrapper, and the decorations of other callables are unaffected.
C12_PipelineLinear == []C12_State /\ [][C12_Step]_vars

\* C12 witness: the decoration of f failed in synthesis, and g, decorated
\* after it, has a wrapper that was called.
C12_Witness ==
    /\ wrappers["f"] # NotDecorated
    /\ wrappers["f"].status = "raised"
    /\ wrappers["f"].trace = <<"Classify", "Synthesize">>
    /\ wrappers["g"] # NotDecorated
    /\ wrappers["g"].status = "wrapped"
    /\ invocations["g"] >= 1

(* Properties of concurrent subscriptions *)

\* Two validators that differ at most in which object they are.
SameValidator(v, w) ==
    /\ v.base_classes = w.base_classes
    /\ v.get_repr = w.get_repr
    /\ \A pith \in Piths : is_valid(v, pith) = is_valid(w, pith)

Contains(str, sub) ==
    \E i \in 1..(Len(str) - Len(sub) + 1) :
        SubSeq(str, i, i + Len(sub) - 1) = sub

\* Each description is the type's label, a space and the representation,
\* so it contains the type's name and the pith's own representation, and
\* one pith is described by one string.
C14_State ==
    \A i \in DOMAIN messages :
        LET m == messages[i]
        IN  /\ m.result.raised = "none" =>
                  /\ m.result.text = label_type(type(m.pith)).text \o " "
                                         \o represent_object(m.pith).text
                  /\ Contains(m.result.text, m.pith.name)
                  /\ m.pith.repr.raised = "none" =>
                        /\ Contains(m.result.text, m.pith.repr.text)
                        /\ m.result.text = label_type(type(m.pith)).text
                               \o " " \o m.pith.repr.text
            /\ m.pith.repr.raised = "none" => m.result.raised = "none"
            /\ \A j \in DOMAIN messages :
                  messages[j].pith = m.pith => messages[j].result = m.result

\* Describing a pith changes nothing but the list of descriptions.
C14_Step ==
    messages' # messages =>
        /\ UNCHANGED <<regVars, lastLookup, decoVars, valeVars, raceVars>>
        /\ SubSeq(messages', 1, Len(messages)) = messages

\* C14: represent_pith(v) is the label of type(v), a space and the
\* representation of v, so it contains the name of v's type and v's
\* representation; the same value gives the same string, and no state is
\* changed.
C14_LabelSpaceRepr == []C14_State /\ [][C14_Step]_vars

\* C14 witness: 42 and an object with a custom representation were
\* described.
C14_Witness ==
    /\ Len(messages) = 2
    /\ messages[1].pith = Pith("builtins", "int", PyStr("42"))
    /\ messages[1].result = PyStr("int 42")
    /\ messages[2].pith.name = "CustomType"
    /\ messages[2].result =
           PyStr("muh.CustomType Collaborator-ily brambling unspiritually")

C16_State ==
    (sampled.status = "checked" /\ sampled.container.len > 0) =>
        /\ sampled.check.raised = "none"
        /\ sampled.check.index = {sampled.random_int % sampled.container.len}
        /\ \A i \in sampled.check.index :
              /\ 0 <= i /\ i <= sampled.container.len - 1
              /\ i < 2^RandomBits
        /\ sampled.check.verdict =
              IF sampled.check.index \subseteq sampled.container.bad
              THEN "violation" ELSE "pass"

\* Checks of one call on containers of one length select one index.
C16_Step ==
    (/\ sampled.status = "checked" /\ sampled'.status = "checked"
     /\ sampled'.random_int = sampled.random_int
     /\ sampled'.container.len = sampled.container.len)
        => sampled'.check.index = sampled.check.index

\* C16: the index of a deep check is the call's random integer modulo the
\* container's length N > 0: the same for the same integer and length,
\* within 0..N-1, and never at or above 2 to the width of the integer.
C16_IndexIsRandomModLen == []C16_State /\ [][C16_Step]_vars

\* C16 witness: a container longer than the largest random integer was
\* checked at the index the largest random integer selects.
C16_Witness ==
    /\ sampled.status = "checked"
    /\ sampled.container.len = 2^RandomBits + 1
    /\ sampled.random_int = 2^RandomBits - 1
    /\ sampled.check.index = {2^RandomBits - 1}

\* C17: the deep check of an empty container passes without selecting an
\* item: nothing is taken modulo zero and nothing is raised.
C17_EmptyPasses ==
    (sampled.status = "checked" /\ sampled.container.len = 0) =>
        /\ sampled.check.raised = "none"
        /\ sampled.check.index = {}
        /\ sampled.check.verdict = "pass"

\* C17 witness: an empty container was checked in a call whose random
\* integer is not zero.
C17_Witness ==
    /\ sampled.status = "checked"
    /\ sampled.container = Container(0, {})
    /\ sampled.random_int > 0
    /\ sampled.check.verdict = "pass"

(* Properties of the names of generated wrappers *)

\* C18: every beartype-specific parameter and local of a generated wrapper
\* begins with "__beartype_", so none is the name of a parameter of the
\* decorated callable that lacks this prefix.
C18_NamesPrefixed ==
    generated.status = "generated" =>
        \A name \in generated.wrapper_params \cup generated.wrapper_locals :
            /\ StartsWith(name, "__beartype_")
            /\ name \notin generated.params

(* Properties of forward references and ignorable hints *)

\* The class of explicit forward references under interpreter v.
ForwardRefClassname(v) ==
    IF IS_PYTHON_AT_LEAST_3_7(v) THEN "typing.ForwardRef"
    ELSE "typing._ForwardRef"

\* A forward reference: a string, or an instance of the interpreter's
\* forward-reference class.
IsForwardRef(h) ==
    h.typename = "builtins.str" \/ h.typename = ForwardRefClassname(pyver)

\* C19: a hint that is a string, whatever the string, or an explicit
\* forward reference is classified with the forward-reference sign; its
\* decoration does not fail on the string not being an identifier.
C19_ForwardRefSign ==
    \A f \in Callables :
        (wrappers[f] # NotDecorated /\ IsForwardRef(wrappers[f].result.hint))
            => /\ wrappers[f].status = "wrapped"
               /\ wrappers[f].result.ok
               /\ wrappers[f].result.sign = "HintSignForwardRef"

\* C19 witness: under Python 3.6 a string that is no identifier and an
\* explicit forward reference were both classified.
C19_Witness ==
    /\ pyver = 36
    /\ wrappers["f"] # NotDecorated
    /\ wrappers["f"].result.hint.repr = "'0d@yw@r3z'"
    /\ wrappers["f"].result.sign = "HintSignForwardRef"
    /\ wrappers["g"] # NotDecorated
    /\ wrappers["g"].result.hint.typename = "typing._ForwardRef"
    /\ wrappers["g"].result.sign = "HintSignForwardRef"

\* The shallowly ignorable representations: object, Generic, Protocol, and
\* Any, Optional and Union of every hinting module.
ListedIgnorable ==
    {"<class 'object'>", "<class 'typing.Generic'>",
     "<class 'typing_extensions.Generic'>", "<class 'typing.Protocol'>",
     "<class 'typing_extensions.Protocol'>"}
    \cup {m \o "." \o n : m \in TYPING_MODULE_NAMES,
                           n \in {"Any", "Optional", "Union"}}

\* C20: once the registry is initialized the shallow-ignorable set holds
\* object, Generic, Protocol and every hinting module's Any, Optional and
\* Union, and a hint whose representation is in the set is marked
\* ignorable, be it unsubscripted or what a subscription by arguments
\* equivalent to Any reduces to.
C20_ShallowIgnorable ==
    /\ initRuns >= 1 => ListedIgnorable \subseteq HINTS_REPR_IGNORABLE_SHALLOW.elems
    /\ lastLookup.fn = "is_hint_ignorable" =>
          /\ lastLookup.key \in HINTS_REPR_IGNORABLE_SHALLOW.elems
                => lastLookup.result
          /\ lastLookup.key \in ListedIgnorable => lastLookup.result
          /\ (lastLookup.subscripted /\ lastLookup.by \in AnyEquivalentArgs)
                => lastLookup.result

\* C20 witness: Union subscripted by Any alone was tested and is ignorable.
C20_Witness ==
    /\ lastLookup.fn = "is_hint_ignorable"
    /\ lastLookup.subscripted
    /\ lastLookup.by = <<Arg("typing.Any", "typing.Any")>>
    /\ lastLookup.key = "typing.Any"
    /\ lastLookup.result

(* Properties of ignorability *)

C21_State ==
    lastLookup.fn = "is_hint_ignorable" =>
        LET h == lastLookup.hint
        IN  lastLookup.result <=>
              \/ h.repr \in HINTS_REPR_IGNORABLE_SHALLOW.elems
              \/ /\ h.is_union
                 /\ \E i \in DOMAIN h.args :
                       h.args[i].repr \in HINTS_REPR_IGNORABLE_SHALLOW.elems
              \/ h.is_container /\ h.args = <<>>

\* The test changes no table, and one hint is given one verdict.
C21_Step ==
    (lastLookup'.fn = "is_hint_ignorable" /\ lastLookup' # lastLookup) =>
        /\ UNCHANGED <<regVars, decoVars, valeVars, restVars>>
        /\ (lastLookup.fn = "is_hint_ignorable"
                /\ lastLookup'.hint = lastLookup.hint)
              => lastLookup'.result = lastLookup.result

SignAttrNames ==
    {StrFrom(HintSignNames[i], _HINT_SIGN_PREFIX_LEN)
        : i \in DOMAIN HintSignNames}

\* The attribute names whose representation is corrected on interpreter v.
Corrected(v) ==
    IF v \in {37, 38} THEN {"ContextManager", "AsyncContextManager"} ELSE {}

\* c(N): the corrected name of N on interpreter v.
CorrectedName(N, v) ==
    IF N \in Corrected(v) THEN "Abstract" \o N ELSE N

ExpectedArgs0Keys(v) ==
    {"None"}
    \cup {m \o "." \o CorrectedName(N, v)
            : m \in TYPING_MODULE_NAMES, N \in SignAttrNames}
    \cup (IF v = 36 THEN {"Match", "Pattern"} ELSE {})

\* C23: after initialization the keys of the zero-or-more table are exactly
\* 'None', the module-qualified corrected name of every declared sign,
\* bound to that sign, and the unqualified Match and Pattern under Python
\* 3.6 only; a corrected name is not registered uncorrected.
C23_Args0Keys ==
    initRuns >= 1 =>
        LET t0 == HINT_REPR_PREFIX_ARGS_0_OR_MORE_TO_SIGN.map
        IN  /\ DOMAIN t0 = ExpectedArgs0Keys(pyver)
            /\ t0["None"] = "HintSignNone"
            /\ \A m \in TYPING_MODULE_NAMES, N \in SignAttrNames :
                  t0[m \o "." \o CorrectedName(N, pyver)] = "HintSign" \o N
            /\ \A m \in TYPING_MODULE_NAMES, N \in Corrected(pyver) :
                  m \o "." \o N \notin DOMAIN t0
            /\ pyver = 36 => t0["Match"] = "HintSignMatch"
                              /\ t0["Pattern"] = "HintSignPattern"

\* C23 witness: initialization has completed on an interpreter with name
\* corrections, and a corrected name is registered.
C23_Witness ==
    /\ initRuns = 1
    /\ pyver = 37
    /\ "typing_extensions.AbstractAsyncContextManager"
          \in DOMAIN HINT_REPR_PREFIX_ARGS_0_OR_MORE_TO_SIGN.map
    /\ "Match" \notin DOMAIN HINT_REPR_PREFIX_ARGS_0_OR_MORE_TO_SIGN.map

ExpectedDeprecated(v) ==
    IF v >= 39
    THEN {m \o "." \o n : m \in TYPING_MODULE_NAMES,
                          n \in _HINT_PEP484_TYPING_ATTR_NAMES_DEPRECATED(39)}
    ELSE {}

\* C24: after initialization both deprecated-prefix globals are the same
\* frozenset, never None: the module-qualified deprecated names under
\* Python >= 3.9, empty earlier; is_deprecated(r) holds exactly of its
\* members.
C24_DeprecatedSet ==
    initRuns >= 1 =>
        /\ HINTS_REPR_PREFIX_DEPRECATED.kind = "frozenset"
        /\ HINTS_PEP484_REPR_PREFIX_DEPRECATED.kind = "frozenset"
        /\ HINTS_REPR_PREFIX_DEPRECATED = HINTS_PEP484_REPR_PREFIX_DEPRECATED
        /\ HINTS_REPR_PREFIX_DEPRECATED.elems = ExpectedDeprecated(pyver)
        /\ \A r \in ReprUniverse \cup ExpectedDeprecated(39) :
              is_deprecated(r) <=> r \in ExpectedDeprecated(pyver)

\* C24 witness: initialization has completed under Python 3.9 and a
\* deprecated representation is a member.
C24_Witness ==
    /\ initRuns = 1
    /\ pyver = 39
    /\ initOutcome = "ok"
    /\ is_deprecated("typing.List")
    /\ ~is_deprecated("typing.Union")

(* Properties of get_hint_isinstanceable_type_or_none *)

\* C22: the getter returns a class as it is, the mapped superclass for an
\* argumentless typing attribute, None for any other hashable object, and
\* raises TypeError for an unhashable object.
C22_GetterCases ==
    \A i \in DOMAIN gotten :
        LET hint == gotten[i].hint
            result == gotten[i].result
        IN  /\ (hint.hashable /\ hint.is_class) =>
                  /\ result.raised = "none" /\ ~result.is_none
                  /\ result.value = hint
            /\ (hint.hashable /\ hint.name \in DOMAIN TYPING_ATTR_ARGLESS_TO_TYPE)
                  => /\ result.raised = "none" /\ ~result.is_none
                     /\ result.value = TYPING_ATTR_ARGLESS_TO_TYPE[hint.name]
            /\ (/\ hint.hashable /\ ~hint.is_class
                 /\ hint.name \notin DOMAIN TYPING_ATTR_ARGLESS_TO_TYPE)
                  => result.raised = "none" /\ result.is_none
            /\ ~hint.hashable => result.raised = "TypeError"

\* C22 witness: the getter was called with a string and with a list.
C22_Witness ==
    /\ Len(gotten) = 2
    /\ gotten[1].hint.name = "'Growth for the sake of growth'"
    /\ gotten[1].result = GetNone
    /\ gotten[2].hint.name = "[]"
    /\ gotten[2].result.raised = "TypeError"

(* Properties of invocations *)

C25_State ==
    \A i \in Invocations :
        frames[i].pc # "none" =>
            /\ frames[i].generated <= 1
            /\ frames[i].is_random /\ frames[i].pc # "body"
                  => frames[i].generated = 1
            /\ frames[i].reads # <<>> => frames[i].generated = 1
            /\ \A k \in DOMAIN frames[i].reads :
                  frames[i].reads[k] = frames[i].random_int

C25_Step ==
    \A i \in Invocations :
        (/\ frames[i].pc # "none" /\ frames[i].generated = 1
         /\ frames'[i].pc # "none")
            => /\ frames'[i].random_int = frames[i].random_int
               /\ frames'[i].generated = 1

\* C25: in every invocation with sampled checks the random integer is
\* generated once, before the first sampled check; every sampled check of
\* the invocation reads that value; no step of any invocation changes the
\* value of another.
C25_RandomIntCallLocal == []C25_State /\ [][C25_Step]_vars

\* C25 witness: two invocations are in progress at once with different
\* random integers, and each has made its sampled checks.
C25_Witness ==
    /\ frames["i1"].pc = "checks" /\ frames["i2"].pc = "checks"
    /\ frames["i1"].random_int # frames["i2"].random_int
    /\ Len(frames["i1"].reads) = MaxChecks
    /\ Len(frames["i2"].reads) = MaxChecks

====
